---- MODULE Spec2Model ----
(***************************************************************************)
(* Token authentication of sonar_api (src/src/auth/token.rs): the          *)
(* auth_tokens and users tables, and request-handling threads that each    *)
(* run TokenAuth::create_for, TokenAuth::invalidate_for or                  *)
(* TokenAuth::from_request, one store statement per step; and the password *)
(* codec (src/src/auth/pw.rs): SaltyPassword::new, parse, validate and its  *)
(* Display, applied by one caller.                                          *)
(***************************************************************************)
EXTENDS Integers, Sequences, FiniteSets, TLC

\* ------------------------------------------------------------------ bounds
\* Number of request-handling threads running concurrently.
NumProcs == 2
\* Largest number of copies of one (user_id, key) row in a store the
\* sequential specification starts from.
MaxDup == 1
\* The ticks of the store's clock a run covers.
MaxTime == 2
\* argon2rs::defaults::LENGTH, the number of bytes of a hash: 32 in the
\* library, scaled down.
LENGTH == 2

\* --------------------------------------------------------------- constants
\* Mutant of MaxTries: `if i > 10`.
MaxTries_OffByOne == 10 + 1

\* `if i >= 10` in create_for: the number of candidate keys tried.
MaxTries == 10

Procs == 1 .. NumProcs
\* users.id of the registered users.
UserIds == {1, 2}
NoUser == 0
\* Strings are sequences of one-character strings.  Keys stand for the
\* 64-character strings gen_ascii_chars() draws; they differ in case only
\* or in one character, so that folding or trimming would confuse them.
Keys == {<<"k">>, <<"K">>, <<"q">>}
NoKey == <<>>

\* A row of auth_tokens (models.rs Token): id and timestamp are assigned by
\* the store and read by no code, so a row is its (user_id, key) and the
\* table maps each row to the number of copies it holds.
Rows == [user_id : UserIds, key : Keys]
EmptyTable == [r \in Rows |-> 0]

VARIABLES
    tokens,     \* the auth_tokens table: [Rows -> Nat]
    users,      \* the ids in the users table
    pc,         \* pc[p]: where thread p is
    cf_user,    \* cf_user[p]: the `user` argument of create_for / invalidate_for
    i,          \* i[p]: create_for's loop counter
    new_key,    \* new_key[p]: the key create_for accepted
    request,    \* request[p]: the request's Authorization header values
    token,      \* token[p]: the user_id of the Token row from_request found
    result,     \* result[p]: what the call returned
    last,       \* history: the last create_for or invalidate_for that returned,
                \* if it returned Ok (maintained by the sequential
                \* specification only)
    now,        \* the store's clock
    issued,     \* issued[r]: the timestamp column of row r, 0 when r is absent
    fault,      \* fault[p]: the store operation that failed in thread p's
                \* from_request, "none" while none has
    held,       \* held[p]: the pooled connections thread p has checked out
    ops,        \* ops[p]: history, the kinds of store operation thread p's
                \* call has issued, in order (a kind repeated in a row once)
    cpc,        \* where the password codec's caller is
    password,   \* the plaintext given to SaltyPassword::new
    made,       \* the SaltyPassword that new returned
    field,      \* the users.password string: written by to_string or read
    parsed,     \* what SaltyPassword::parse(field) returned
    shown,      \* parsed.to_string()
    attempt,    \* the plaintext given to validate
    valid,      \* what validate returned
    argon2i     \* the values of argon2i_simple computed so far

vars == <<tokens, users, pc, cf_user, i, new_key, request, token, result, last,
          now, issued, fault, held, ops, cpc, password, made, field, parsed, shown, attempt, valid,
          argon2i>>
\* The variables of auth/token.rs and those of auth/pw.rs.
auth == <<tokens, users, pc, cf_user, i, new_key, request, token, result, last,
          now, issued, fault, held, ops>>
codec == <<cpc, password, made, field, parsed, shown, attempt, valid, argon2i>>
locals == <<cf_user, i, new_key, request, token, result, fault>>

\* ----------------------------------------------------------------- results
\* Result<String, &'static str>, Result<(), &'static str> and
\* rocket's Outcome<TokenAuth, (Status, String)> share one record shape.
NoResult == [tag |-> "None", key |-> NoKey, user |-> NoUser, status |-> 0, msg |-> ""]
Ok(k) == [tag |-> "Ok", key |-> k, user |-> NoUser, status |-> 0, msg |-> ""]
Err(m) == [tag |-> "Err", key |-> NoKey, user |-> NoUser, status |-> 0, msg |-> m]
Success(u) == [tag |-> "Success", key |-> NoKey, user |-> u, status |-> 0, msg |-> ""]
Failure(s, m) == [tag |-> "Failure", key |-> NoKey, user |-> NoUser, status |-> s, msg |-> m]

Unauthorized == 401
Forbidden == 403
InternalServerError == 500

\* The messages, without their quotation marks.
MsgOnce == "Authorization header must appear exactly once"
MsgPrefix == "Authorization header must begin with the string Token "
MsgInvalid == "Token presented was not valid"
MsgStore == "store error"


\* ------------------------------------------------------------------- store
RECURSIVE SumOver(_, _)
SumOver(t, S) ==
    IF S = {} THEN 0
    ELSE LET r == CHOOSE x \in S : TRUE IN t[r] + SumOver(t, S \ {r})

\* The number of token rows user u owns / that carry key k.
TokensOf(t, u) == SumOver(t, {r \in Rows : r.user_id = u})
TokensWithKey(t, k) == SumOver(t, {r \in Rows : r.key = k})

\* select(exists(auth_tokens.filter(key.eq(&proposed_key))))
KeyExists(t, k) == \E r \in Rows : r.key = k /\ t[r] > 0

\* Mutant of DeleteTokensFor: the filter inverted (user_id.ne(user.id)).
DeleteTokensFor_Inverted(t, u) == [r \in Rows |-> IF r.user_id # u THEN 0 ELSE t[r]]

\* delete(auth_tokens.filter(user_id.eq(user.id)))
DeleteTokensFor(t, u) == [r \in Rows |-> IF r.user_id = u THEN 0 ELSE t[r]]

\* insert(&NewToken { user_id, key }).into(auth_tokens): the table carries no
\* uniqueness constraint on user_id or key, so a successful insert adds a row
\* whatever the table holds.
InsertToken(t, u, k) ==
    LET row == [user_id |-> u, key |-> k] IN [t EXCEPT ![row] = @ + 1]

\* The timestamp column (models.rs Token.timestamp) after a statement that
\* took table t to t2 at time `time`: NewToken carries no timestamp, so the
\* store stamps an inserted row with its clock; a stored row keeps its
\* timestamp and a deleted row has none.
Restamp(ts, t, t2, time) ==
    [r \in Rows |-> IF t2[r] = 0 THEN 0 ELSE IF t2[r] > t[r] THEN time ELSE ts[r]]

\* Mutant of FindTokens: the invalidation period that from_request's comment
\* leaves to the future, a row MaxTime ticks old is no longer found.
FindTokens_Expiring(t, k) ==
    {r.user_id : r \in {x \in Rows : x.key = k /\ t[x] > 0 /\ now - issued[x] < MaxTime}}

\* auth_tokens.filter(key.eq(incoming_key)).first::<Token>(): the user_id of
\* a row with that key; which one, when several match, is the store's choice.
FindTokens(t, k) == {r.user_id : r \in {x \in Rows : x.key = k /\ t[x] > 0}}

\* users.find(token.user_id).first::<User>()
FindUser(us, id) == id \in us

\* ------------------------------------------------------------ from_request
TOKEN_PREFIX == <<"T", "o", "k", "e", "n", " ">>

\* str::starts_with
StartsWith(s, prefix) ==
    /\ Len(s) >= Len(prefix)
    /\ SubSeq(s, 1, Len(prefix)) = prefix

\* Mutant of HeaderCheck: only a missing header is refused (keys.len() == 0),
\* and the first value is used when there are several.
HeaderCheck_FirstValue(keys) ==
    IF Len(keys) = 0 THEN Failure(Unauthorized, MsgOnce)
    ELSE IF ~StartsWith(keys[1], TOKEN_PREFIX) THEN Failure(Unauthorized, MsgPrefix)
    ELSE NoResult

\* Mutant of HeaderCheck: the prefix compared is "Token", without its blank.
HeaderCheck_NoBlank(keys) ==
    IF Len(keys) # 1 THEN Failure(Unauthorized, MsgOnce)
    ELSE IF ~StartsWith(keys[1], SubSeq(TOKEN_PREFIX, 1, Len(TOKEN_PREFIX) - 1))
    THEN Failure(Unauthorized, MsgPrefix)
    ELSE NoResult

\* The header checks of from_request: the failure, or NoResult to go on.
HeaderCheck(keys) ==
    IF Len(keys) # 1 THEN Failure(Unauthorized, MsgOnce)
    ELSE IF ~StartsWith(keys[1], TOKEN_PREFIX) THEN Failure(Unauthorized, MsgPrefix)
    ELSE NoResult

\* &key[TOKEN_PREFIX.len()..]
IncomingKey(keys) == SubSeq(keys[1], Len(TOKEN_PREFIX) + 1, Len(keys[1]))

\* Mutant of TokenOutcome: NotFound is reported like every other error of
\* the query.
TokenOutcome_ServerError(found) ==
    IF found = {} THEN Failure(InternalServerError, MsgStore) ELSE NoResult

\* The outcome of the token query: not found, or go on with a found row.
TokenOutcome(found) == IF found = {} THEN Failure(Forbidden, MsgInvalid) ELSE NoResult

\* Mutant of UserOutcome: a token whose user is missing is an invalid token.
UserOutcome_Forbidden(us, id) ==
    IF FindUser(us, id) THEN Success(id) ELSE Failure(Forbidden, MsgInvalid)

\* The outcome of the user query for the found token's user_id.
UserOutcome(us, id) ==
    IF FindUser(us, id) THEN Success(id) ELSE Failure(InternalServerError, MsgStore)

\* Every outcome from_request can give for header values `keys` when the
\* store holds t and us and every store operation succeeds.
FromRequest(t, us, keys) ==
    IF HeaderCheck(keys) # NoResult THEN {HeaderCheck(keys)}
    ELSE LET found == FindTokens(t, IncomingKey(keys)) IN
         IF TokenOutcome(found) # NoResult THEN {TokenOutcome(found)}
         ELSE {UserOutcome(us, id) : id \in found}

\* The header value "Token <k>".
TokenHeader(k) == TOKEN_PREFIX \o k

\* The requests threads send: no Authorization header, one well-formed one
\* (a key the RNG can draw, or such a key with a blank after or before it,
\* or the empty key), one without the exact prefix, and two headers.
HeaderValues ==
    {TokenHeader(k) : k \in Keys}
    \cup {TokenHeader(<<"k", " ">>), TokenHeader(<<" ", "k">>), TokenHeader(<<>>)}
    \cup {<<"t", "o", "k", "e", "n", " ", "k">>, <<"T", "o", "k", "e", "n", "k">>,
          <<"k">>, <<>>}
Requests ==
    {<<>>} \cup {<<h>> : h \in HeaderValues}
    \cup {<<TokenHeader(<<"k">>), TokenHeader(<<"k">>)>>,
          <<TokenHeader(<<"k">>), TokenHeader(<<"q">>)>>,
          <<<<"k">>, TokenHeader(<<"K">>)>>}

\* --------------------------------------------------------- password codec
\* auth/pw.rs.  A string is the sequence of its UTF-8 bytes: an ASCII
\* character is one element, and the two-byte character e-acute is the two
\* elements "e1" (its leading byte) and "e2" (its continuation byte).
SALT_LENGTH == LENGTH * 4
HASH_LENGTH == LENGTH

\* The bytes argon2i_simple's output is drawn from: 0x00, 0x0a, 0x10, 0xab, 0xff.
Bytes == {0, 10, 16, 171, 255}
Hashes == [1 .. HASH_LENGTH -> Bytes]
\* The characters gen_ascii_chars() is drawn from, and the salts new draws.
AsciiChars == {"a", "Z", "7"}
Salts == {[j \in 1 .. SALT_LENGTH |-> IF j % 2 = 1 THEN c ELSE d] : c, d \in AsciiChars}
Passwords == {"hunter2", "Hunter2"}

\* struct SaltyPassword { salt, hash }, and Option<SaltyPassword>; "panic"
\* stands for a call that did not return.
NoSalty == [tag |-> "None", salt |-> <<>>, hash |-> <<>>]
Some(salt, hash) == [tag |-> "Some", salt |-> salt, hash |-> hash]
Panic == [tag |-> "panic", salt |-> <<>>, hash |-> <<>>]

PREFIX == <<"$", "a", "r", "g", "o", "n", "2", "$">>

\* str::ends_with
EndsWith(s, suffix) ==
    /\ Len(s) >= Len(suffix)
    /\ SubSeq(s, Len(s) - Len(suffix) + 1, Len(s)) = suffix

\* str::is_char_boundary(index), index counted in bytes from 0.
IsCharBoundary(s, index) ==
    \/ index = 0
    \/ index = Len(s)
    \/ index < Len(s) /\ s[index + 1] # "e2"

\* &s[begin..end] returns: begin <= end <= s.len(), both on character
\* boundaries.  It panics otherwise.
CanSlice(s, begin, end) ==
    /\ begin <= end
    /\ end <= Len(s)
    /\ IsCharBoundary(s, begin)
    /\ IsCharBoundary(s, end)

\* str::find(c): the byte index of the first c, -1 for None.
Find(s, c) ==
    IF \E j \in 1 .. Len(s) : s[j] = c
    THEN (CHOOSE j \in 1 .. Len(s) : s[j] = c /\ \A m \in 1 .. j - 1 : s[m] # c) - 1
    ELSE -1

LowerDigits == <<"0", "1", "2", "3", "4", "5", "6", "7", "8", "9",
                 "a", "b", "c", "d", "e", "f">>
UpperDigits == <<"0", "1", "2", "3", "4", "5", "6", "7", "8", "9",
                 "A", "B", "C", "D", "E", "F">>

\* char::to_digit(16): the value of a hexadecimal digit of either case, -1
\* for None.
ToDigit(c) ==
    IF \E j \in 1 .. 16 : LowerDigits[j] = c \/ UpperDigits[j] = c
    THEN (CHOOSE j \in 1 .. 16 : LowerDigits[j] = c \/ UpperDigits[j] = c) - 1
    ELSE -1

RECURSIVE Accumulate(_, _)
Accumulate(digits, acc) ==
    IF digits = <<>> THEN acc
    ELSE LET d == ToDigit(Head(digits)) IN
         IF d < 0 \/ acc * 16 + d > 255 THEN -1
         ELSE Accumulate(Tail(digits), acc * 16 + d)

\* u8::from_str_radix(src, 16): an optional + sign followed by digits; the
\* value, or -1 for Err (empty, no digit after the sign, a character that is
\* no digit, a value above u8::MAX).
FromStrRadix16(src) ==
    LET digits == IF src # <<>> /\ Head(src) = "+" THEN Tail(src) ELSE src IN
    IF digits = <<>> THEN -1 ELSE Accumulate(digits, 0)

\* The loop of parse over the bytes of the hash: the bytes read so far, or
\* <<-1>> when parse returns None inside the loop.
RECURSIVE ParseHash(_, _, _)
ParseHash(hash_chars, index, hash) ==
    IF index = HASH_LENGTH THEN hash
    ELSE LET begin == index * 2
             end == begin + 2
         IN  IF ~(IsCharBoundary(hash_chars, begin) /\ IsCharBoundary(hash_chars, end))
             THEN <<-1>>
             ELSE LET byte == FromStrRadix16(SubSeq(hash_chars, begin + 1, end)) IN
                  IF byte < 0 THEN <<-1>>
                  ELSE ParseHash(hash_chars, index + 1, Append(hash, byte))

\* SaltyPassword::parse
Parse(field_in) ==
    IF ~(StartsWith(field_in, PREFIX) /\ EndsWith(field_in, <<"$">>)) THEN NoSalty
    ELSE IF ~CanSlice(field_in, Len(PREFIX), Len(field_in) - 1) THEN Panic
    ELSE LET inner == SubSeq(field_in, Len(PREFIX) + 1, Len(field_in) - 1)
             split_index == Find(inner, "$")
         IN  IF split_index < 0 THEN NoSalty
             ELSE LET salt == SubSeq(inner, 1, split_index)
                      hash_chars == SubSeq(inner, split_index + 2, Len(inner))
                  IN  IF Len(hash_chars) # HASH_LENGTH * 2 THEN NoSalty
                      ELSE LET hash == ParseHash(hash_chars, 0, <<>>) IN
                           IF hash = <<-1>> THEN NoSalty ELSE Some(salt, hash)

\* write!(f, "{:x}", byte): lowercase hexadecimal with no padding, one digit
\* for a byte below 0x10.
LowerHex(byte) ==
    IF byte < 16 THEN <<LowerDigits[byte + 1]>>
    ELSE <<LowerDigits[(byte \div 16) + 1], LowerDigits[(byte % 16) + 1]>>

RECURSIVE HexOf(_)
HexOf(hash) == IF hash = <<>> THEN <<>> ELSE LowerHex(Head(hash)) \o HexOf(Tail(hash))

\* impl fmt::Display for SaltyPassword, which to_string() runs.
Display(self) == PREFIX \o self.salt \o <<"$">> \o HexOf(self.hash) \o <<"$">>

\* The hashes argon2i_simple(pw, salt) can return: the one it returned
\* before for these arguments, any if it is their first use.
Argon2iSimple(pw, salt) ==
    IF \E e \in argon2i : e.password = pw /\ e.salt = salt
    THEN {e.hash : e \in {x \in argon2i : x.password = pw /\ x.salt = salt}}
    ELSE Hashes

\* s repeated n times.
Repeat(s, n) == [j \in 1 .. n * Len(s) |-> s[((j - 1) % Len(s)) + 1]]

\* The string "$argon2$<salt>$<hash_chars>$".
Framed(salt, hash_chars) == PREFIX \o salt \o <<"$">> \o hash_chars \o <<"$">>

\* Strings a users.password column can hold besides the ones to_string
\* wrote: hash segments of the right length in lowercase, in uppercase, with
\* a leading zero, with signs, with a dollar, with a letter that is no digit,
\* with two-byte characters (aligned with the byte pairs and across them);
\* segments too short, too long and empty; an empty salt and a salt of
\* characters that are no letters or digits; and strings that
\* lack the prefix, the trailing dollar or the separator.
SampleSalt == Repeat(<<"s">>, SALT_LENGTH)
HashSegments ==
    {Repeat(pair, HASH_LENGTH) :
        pair \in {<<"a", "b">>, <<"A", "B">>, <<"0", "f">>, <<"+", "f">>, <<"-", "f">>,
                  <<"f", "+">>, <<"a", "$">>, <<"g", "0">>, <<"e1", "e2">>}}
    \cup {<<"a">> \o Repeat(<<"e1", "e2">>, HASH_LENGTH - 1) \o <<"a">>,
          Repeat(<<"a">>, 2 * HASH_LENGTH - 1), Repeat(<<"a">>, 2 * HASH_LENGTH + 1), <<>>}
Fields ==
    {Framed(SampleSalt, h) : h \in HashSegments}
    \cup {Framed(<<>>, Repeat(<<"a", "b">>, HASH_LENGTH)),
          Framed(Repeat(<<"!">>, SALT_LENGTH), Repeat(<<"a", "b">>, HASH_LENGTH)),
          <<>>, <<"$">>, PREFIX, PREFIX \o <<"$">>,
          PREFIX \o SampleSalt \o <<"$">> \o Repeat(<<"a", "b">>, HASH_LENGTH),
          Tail(Framed(SampleSalt, Repeat(<<"a", "b">>, HASH_LENGTH))),
          PREFIX \o SampleSalt \o Repeat(<<"a", "b">>, HASH_LENGTH) \o <<"$">>,
          <<"$", "A", "R", "G", "O", "N", "2", "$">> \o SampleSalt \o <<"$">>
              \o Repeat(<<"a", "b">>, HASH_LENGTH) \o <<"$">>}

\* No codec call has been made.
CodecIdle ==
    /\ cpc = "idle"
    /\ password = ""
    /\ made = NoSalty
    /\ field = <<>>
    /\ parsed = NoSalty
    /\ shown = <<>>
    /\ attempt = ""
    /\ valid = FALSE
    /\ argon2i = {}

\* ----------------------------------------------------------------- threads
\* `let connection = CONNECTION_POOL.get()...?` has checked a connection out.
Acquired(p) == [held EXCEPT ![p] = @ + 1]

\* The pooled connections thread p holds when its call has moved to `to`:
\* `connection` is a local of create_for, and of the block `let user = {..}`
\* of from_request, so it is dropped, and with that returned to the pool,
\* when the call returns or the block ends.
HeldAfter_Leak(p, to) ==
    IF to = "auth_done" THEN [held EXCEPT ![p] = @ - 1] ELSE held

HeldAfter(p, to) ==
    IF to \in {"cf_done", "auth_done"} THEN [held EXCEPT ![p] = @ - 1] ELSE held

\* The history of thread p's call after it issued an operation of kind op.
Logged(p, op) ==
    [ops EXCEPT ![p] = IF @ # <<>> /\ @[Len(@)] = op THEN @ ELSE Append(@, op)]

NoCall == [op |-> "none", user |-> NoUser, key |-> NoKey]

Init ==
    /\ tokens = EmptyTable
    /\ users = UserIds
    /\ pc = [p \in Procs |-> "idle"]
    /\ cf_user = [p \in Procs |-> NoUser]
    /\ i = [p \in Procs |-> 0]
    /\ new_key = [p \in Procs |-> NoKey]
    /\ request = [p \in Procs |-> <<>>]
    /\ token = [p \in Procs |-> NoUser]
    /\ result = [p \in Procs |-> NoResult]
    /\ last = NoCall
    /\ now = 0
    /\ issued = [r \in Rows |-> 0]
    /\ fault = [p \in Procs |-> "none"]
    /\ held = [p \in Procs |-> 0]
    /\ ops = [p \in Procs |-> <<>>]
    /\ CodecIdle

\* Mutant of create_for_begin: the user's rows are deleted as soon as the
\* connection is there, before a key has been found.
create_for_begin_DeleteFirst(p, u) ==
    /\ pc[p] = "idle"
    /\ cf_user' = [cf_user EXCEPT ![p] = u]
    /\ \E pool_ok \in BOOLEAN :
          IF pool_ok
          THEN /\ pc' = [pc EXCEPT ![p] = "cf_loop"]
               /\ i' = [i EXCEPT ![p] = 0]
               /\ held' = Acquired(p)
               /\ tokens' = DeleteTokensFor(tokens, u)
               /\ UNCHANGED result
          ELSE /\ pc' = [pc EXCEPT ![p] = "cf_done"]
               /\ result' = [result EXCEPT ![p] = Err("Couldn't get connection from pool")]
               /\ UNCHANGED <<i, held, tokens>>
    /\ ops' = Logged(p, "get")
    /\ issued' = Restamp(issued, tokens, tokens', now)
    /\ UNCHANGED <<users, new_key, request, token, last, now, fault, codec>>

\* create_for, to the head of its loop: CONNECTION_POOL.get() and `let mut i = 0`.
create_for_begin(p, u) ==
    /\ pc[p] = "idle"
    /\ cf_user' = [cf_user EXCEPT ![p] = u]
    /\ \E pool_ok \in BOOLEAN :
          IF pool_ok
          THEN /\ pc' = [pc EXCEPT ![p] = "cf_loop"]
               /\ i' = [i EXCEPT ![p] = 0]
               /\ held' = Acquired(p)
               /\ UNCHANGED result
          ELSE /\ pc' = [pc EXCEPT ![p] = "cf_done"]
               /\ result' = [result EXCEPT ![p] = Err("Couldn't get connection from pool")]
               /\ UNCHANGED <<i, held>>
    /\ ops' = Logged(p, "get")
    /\ UNCHANGED <<tokens, users, new_key, request, token, last, now, issued, fault, codec>>

\* One pass of create_for's loop: draw proposed_key (one of `drawn`), ask the
\* store whether it exists, accept it or count the attempt.  i lives in the
\* loop's block only: it is 0 outside it.
create_for_loop(p, drawn) ==
    /\ pc[p] = "cf_loop"
    /\ \E rng_ok \in BOOLEAN, proposed_key \in drawn, query_ok \in BOOLEAN :
          IF ~rng_ok
          THEN /\ pc' = [pc EXCEPT ![p] = "cf_done"]
               /\ result' = [result EXCEPT ![p] = Err("Couldn't connect to OS RNG")]
               /\ i' = [i EXCEPT ![p] = 0]
               /\ UNCHANGED <<new_key, ops>>
          ELSE IF ~query_ok
          THEN /\ pc' = [pc EXCEPT ![p] = "cf_done"]
               /\ result' = [result EXCEPT ![p] = Err("Failed to check for key existence")]
               /\ i' = [i EXCEPT ![p] = 0]
               /\ ops' = Logged(p, "exists")
               /\ UNCHANGED new_key
          ELSE IF ~KeyExists(tokens, proposed_key)
          THEN /\ pc' = [pc EXCEPT ![p] = "cf_delete"]
               /\ new_key' = [new_key EXCEPT ![p] = proposed_key]
               /\ i' = [i EXCEPT ![p] = 0]
               /\ ops' = Logged(p, "exists")
               /\ UNCHANGED result
          ELSE IF i[p] + 1 >= MaxTries
          THEN /\ pc' = [pc EXCEPT ![p] = "cf_done"]
               /\ result' = [result EXCEPT ![p] =
                                Err("Couldn't find unused key after 10 tries")]
               /\ i' = [i EXCEPT ![p] = 0]
               /\ ops' = Logged(p, "exists")
               /\ UNCHANGED new_key
          ELSE /\ i' = [i EXCEPT ![p] = @ + 1]
               /\ ops' = Logged(p, "exists")
               /\ UNCHANGED <<pc, result, new_key>>
    /\ held' = HeldAfter(p, pc'[p])
    /\ UNCHANGED <<tokens, users, cf_user, request, token, last, now, issued, fault, codec>>

\* Mutant of create_for_delete: the new row is inserted where the old rows
\* should be deleted.
create_for_delete_InsertsFirst(p) ==
    /\ pc[p] = "cf_delete"
    /\ \E delete_ok \in BOOLEAN :
          IF delete_ok
          THEN /\ tokens' = InsertToken(tokens, cf_user[p], new_key[p])
               /\ pc' = [pc EXCEPT ![p] = "cf_insert"]
               /\ UNCHANGED result
          ELSE /\ pc' = [pc EXCEPT ![p] = "cf_done"]
               /\ result' = [result EXCEPT ![p] = Err("Couldn't delete existing keys")]
               /\ UNCHANGED tokens
    /\ ops' = Logged(p, "delete")
    /\ held' = HeldAfter(p, pc'[p])
    /\ issued' = Restamp(issued, tokens, tokens', now)
    /\ UNCHANGED <<users, cf_user, i, new_key, request, token, last, now, fault, codec>>

\* Mutant of create_for_delete: the call goes on to its insert without
\* having deleted.
create_for_delete_Skipped(p) ==
    /\ pc[p] = "cf_delete"
    /\ pc' = [pc EXCEPT ![p] = "cf_insert"]
    /\ UNCHANGED <<tokens, result, issued, held, ops>>
    /\ UNCHANGED <<users, cf_user, i, new_key, request, token, last, now, fault, codec>>

\* create_for's delete of the user's existing tokens.
create_for_delete(p) ==
    /\ pc[p] = "cf_delete"
    /\ \E delete_ok \in BOOLEAN :
          IF delete_ok
          THEN /\ tokens' = DeleteTokensFor(tokens, cf_user[p])
               /\ pc' = [pc EXCEPT ![p] = "cf_insert"]
               /\ UNCHANGED result
          ELSE /\ pc' = [pc EXCEPT ![p] = "cf_done"]
               /\ result' = [result EXCEPT ![p] = Err("Couldn't delete existing keys")]
               /\ UNCHANGED tokens
    /\ ops' = Logged(p, "delete")
    /\ held' = HeldAfter(p, pc'[p])
    /\ issued' = Restamp(issued, tokens, tokens', now)
    /\ UNCHANGED <<users, cf_user, i, new_key, request, token, last, now, fault, codec>>

\* Mutant of create_for_insert: the insert replaces the user's rows (delete
\* and insert in one transaction, or an upsert keyed by user_id).
create_for_insert_Replacing(p) ==
    /\ pc[p] = "cf_insert"
    /\ \E insert_ok \in BOOLEAN :
          IF insert_ok
          THEN /\ tokens' = InsertToken(DeleteTokensFor(tokens, cf_user[p]),
                                        cf_user[p], new_key[p])
               /\ result' = [result EXCEPT ![p] = Ok(new_key[p])]
          ELSE /\ result' = [result EXCEPT ![p] = Err("Failed to insert key into auth_tokens")]
               /\ UNCHANGED tokens
    /\ pc' = [pc EXCEPT ![p] = "cf_done"]
    /\ ops' = Logged(p, "insert")
    /\ held' = HeldAfter(p, "cf_done")
    /\ issued' = Restamp(issued, tokens, tokens', now)
    /\ UNCHANGED <<users, cf_user, i, new_key, request, token, last, now, fault, codec>>

\* Mutant of create_for_insert: the delete runs after the insert.
create_for_insert_ThenDelete(p) ==
    /\ pc[p] = "cf_insert"
    /\ \E insert_ok \in BOOLEAN :
          IF insert_ok
          THEN /\ tokens' = DeleteTokensFor(InsertToken(tokens, cf_user[p], new_key[p]),
                                            cf_user[p])
               /\ result' = [result EXCEPT ![p] = Ok(new_key[p])]
          ELSE /\ result' = [result EXCEPT ![p] = Err("Failed to insert key into auth_tokens")]
               /\ UNCHANGED tokens
    /\ pc' = [pc EXCEPT ![p] = "cf_done"]
    /\ ops' = Logged(p, "insert")
    /\ held' = HeldAfter(p, "cf_done")
    /\ issued' = Restamp(issued, tokens, tokens', now)
    /\ UNCHANGED <<users, cf_user, i, new_key, request, token, last, now, fault, codec>>

\* Mutant of create_for_insert: the error is reported for an insert whose row
\* was written all the same.
create_for_insert_ErrAfterWrite(p) ==
    /\ pc[p] = "cf_insert"
    /\ \E insert_ok \in BOOLEAN :
          /\ tokens' = InsertToken(tokens, cf_user[p], new_key[p])
          /\ result' = [result EXCEPT ![p] =
                           IF insert_ok THEN Ok(new_key[p])
                           ELSE Err("Failed to insert key into auth_tokens")]
    /\ pc' = [pc EXCEPT ![p] = "cf_done"]
    /\ ops' = Logged(p, "insert")
    /\ held' = HeldAfter(p, "cf_done")
    /\ issued' = Restamp(issued, tokens, tokens', now)
    /\ UNCHANGED <<users, cf_user, i, new_key, request, token, last, now, fault, codec>>

\* create_for's insert of the new token, and its return of Ok(new_key).
create_for_insert(p) ==
    /\ pc[p] = "cf_insert"
    /\ \E insert_ok \in BOOLEAN :
          IF insert_ok
          THEN /\ tokens' = InsertToken(tokens, cf_user[p], new_key[p])
               /\ result' = [result EXCEPT ![p] = Ok(new_key[p])]
          ELSE /\ result' = [result EXCEPT ![p] = Err("Failed to insert key into auth_tokens")]
               /\ UNCHANGED tokens
    /\ pc' = [pc EXCEPT ![p] = "cf_done"]
    /\ ops' = Logged(p, "insert")
    /\ held' = HeldAfter(p, "cf_done")
    /\ issued' = Restamp(issued, tokens, tokens', now)
    /\ UNCHANGED <<users, cf_user, i, new_key, request, token, last, now, fault, codec>>

\* invalidate_for: CONNECTION_POOL.get(), then the one delete statement.
invalidate_for(p, u) ==
    /\ pc[p] = "idle"
    /\ cf_user' = [cf_user EXCEPT ![p] = u]
    /\ pc' = [pc EXCEPT ![p] = "inv_done"]
    /\ \E pool_ok \in BOOLEAN, delete_ok \in BOOLEAN :
          IF ~pool_ok
          THEN /\ result' = [result EXCEPT ![p] = Err("Couldn't get connection from pool")]
               /\ ops' = [ops EXCEPT ![p] = <<"get">>]
               /\ UNCHANGED tokens
          ELSE IF ~delete_ok
          THEN /\ result' = [result EXCEPT ![p] = Err("Couldn't delete existing keys")]
               /\ ops' = [ops EXCEPT ![p] = <<"get", "delete">>]
               /\ UNCHANGED tokens
          ELSE /\ tokens' = DeleteTokensFor(tokens, u)
               /\ ops' = [ops EXCEPT ![p] = <<"get", "delete">>]
               /\ result' = [result EXCEPT ![p] = Ok(NoKey)]
    /\ UNCHANGED held
    /\ issued' = Restamp(issued, tokens, tokens', now)
    /\ UNCHANGED <<users, i, new_key, request, token, last, now, fault, codec>>

\* Mutant of from_request_token: the connection is taken from the pool before
\* the header is looked at.
from_request_token_ConnectFirst(p, keys) ==
    /\ pc[p] = "idle"
    /\ request' = [request EXCEPT ![p] = keys]
    /\ \E pool_ok \in BOOLEAN, query_ok \in BOOLEAN :
          IF ~pool_ok
          THEN /\ pc' = [pc EXCEPT ![p] = "auth_done"]
               /\ result' = [result EXCEPT ![p] = Failure(InternalServerError, MsgStore)]
               /\ fault' = [fault EXCEPT ![p] = "pool"]
               /\ ops' = [ops EXCEPT ![p] = <<"get">>]
               /\ UNCHANGED <<token, held>>
          ELSE IF HeaderCheck(keys) # NoResult
          THEN /\ pc' = [pc EXCEPT ![p] = "auth_done"]
               /\ result' = [result EXCEPT ![p] = HeaderCheck(keys)]
               /\ ops' = [ops EXCEPT ![p] = <<"get">>]
               /\ UNCHANGED <<token, fault, held>>
          ELSE LET found == FindTokens(tokens, IncomingKey(keys)) IN
               IF ~query_ok
               THEN /\ pc' = [pc EXCEPT ![p] = "auth_done"]
                    /\ result' = [result EXCEPT ![p] = Failure(InternalServerError, MsgStore)]
                    /\ fault' = [fault EXCEPT ![p] = "token query"]
                    /\ ops' = [ops EXCEPT ![p] = <<"get", "token">>]
                    /\ UNCHANGED <<token, held>>
               ELSE IF TokenOutcome(found) # NoResult
               THEN /\ pc' = [pc EXCEPT ![p] = "auth_done"]
                    /\ result' = [result EXCEPT ![p] = TokenOutcome(found)]
                    /\ ops' = [ops EXCEPT ![p] = <<"get", "token">>]
                    /\ UNCHANGED <<token, fault, held>>
               ELSE /\ \E id \in found : token' = [token EXCEPT ![p] = id]
                    /\ pc' = [pc EXCEPT ![p] = "auth_user"]
                    /\ ops' = [ops EXCEPT ![p] = <<"get", "token">>]
                    /\ held' = Acquired(p)
                    /\ UNCHANGED <<result, fault>>
    /\ UNCHANGED <<tokens, users, cf_user, i, new_key, last, now, issued, codec>>

\* from_request, to its token query: the header checks, CONNECTION_POOL.get()
\* and auth_tokens.filter(key.eq(incoming_key)).first().
from_request_token(p, keys) ==
    /\ pc[p] = "idle"
    /\ request' = [request EXCEPT ![p] = keys]
    /\ IF HeaderCheck(keys) # NoResult
       THEN /\ pc' = [pc EXCEPT ![p] = "auth_done"]
            /\ result' = [result EXCEPT ![p] = HeaderCheck(keys)]
            /\ UNCHANGED <<token, fault, held, ops>>
       ELSE \E pool_ok \in BOOLEAN, query_ok \in BOOLEAN :
               LET found == FindTokens(tokens, IncomingKey(keys)) IN
               IF ~(pool_ok /\ query_ok)
               THEN /\ pc' = [pc EXCEPT ![p] = "auth_done"]
                    /\ result' = [result EXCEPT ![p] = Failure(InternalServerError, MsgStore)]
                    /\ fault' = [fault EXCEPT ![p] =
                                    IF ~pool_ok THEN "pool" ELSE "token query"]
                    /\ ops' = [ops EXCEPT ![p] =
                                  IF ~pool_ok THEN <<"get">> ELSE <<"get", "token">>]
                    /\ UNCHANGED <<token, held>>
               ELSE IF TokenOutcome(found) # NoResult
               THEN /\ pc' = [pc EXCEPT ![p] = "auth_done"]
                    /\ result' = [result EXCEPT ![p] = TokenOutcome(found)]
                    /\ ops' = [ops EXCEPT ![p] = <<"get", "token">>]
                    /\ UNCHANGED <<token, fault, held>>
               ELSE /\ \E id \in found : token' = [token EXCEPT ![p] = id]
                    /\ pc' = [pc EXCEPT ![p] = "auth_user"]
                    /\ ops' = [ops EXCEPT ![p] = <<"get", "token">>]
                    /\ held' = Acquired(p)
                    /\ UNCHANGED <<result, fault>>
    /\ UNCHANGED <<tokens, users, cf_user, i, new_key, last, now, issued, codec>>

\* Mutant of from_request_user: an error of the user query is reported as
\* an invalid token.
from_request_user_Forbidden(p) ==
    /\ pc[p] = "auth_user"
    /\ pc' = [pc EXCEPT ![p] = "auth_done"]
    /\ \E query_ok \in BOOLEAN :
          /\ result' = [result EXCEPT ![p] =
                           IF query_ok THEN UserOutcome(users, token[p])
                           ELSE Failure(Forbidden, MsgInvalid)]
          /\ fault' = [fault EXCEPT ![p] = IF query_ok THEN "none" ELSE "user query"]
    /\ ops' = Logged(p, "user")
    /\ held' = HeldAfter(p, "auth_done")
    /\ UNCHANGED <<tokens, users, cf_user, i, new_key, request, token, last, now, issued, codec>>

\* Mutant of from_request_user: a token is good for one request, its row is
\* deleted once the user is found.
from_request_user_Consuming(p) ==
    /\ pc[p] = "auth_user"
    /\ pc' = [pc EXCEPT ![p] = "auth_done"]
    /\ \E query_ok \in BOOLEAN :
          /\ result' = [result EXCEPT ![p] =
                           IF query_ok THEN UserOutcome(users, token[p])
                           ELSE Failure(InternalServerError, MsgStore)]
          /\ fault' = [fault EXCEPT ![p] = IF query_ok THEN "none" ELSE "user query"]
          /\ tokens' = IF query_ok /\ FindUser(users, token[p])
                       THEN DeleteTokensFor(tokens, token[p]) ELSE tokens
    /\ issued' = Restamp(issued, tokens, tokens', now)
    /\ ops' = Logged(p, "user")
    /\ held' = HeldAfter(p, "auth_done")
    /\ UNCHANGED <<users, cf_user, i, new_key, request, token, last, now, codec>>

\* from_request's user query and its Success(TokenAuth { user }).
from_request_user(p) ==
    /\ pc[p] = "auth_user"
    /\ pc' = [pc EXCEPT ![p] = "auth_done"]
    /\ \E query_ok \in BOOLEAN :
          /\ result' = [result EXCEPT ![p] =
                           IF query_ok THEN UserOutcome(users, token[p])
                           ELSE Failure(InternalServerError, MsgStore)]
          /\ fault' = [fault EXCEPT ![p] = IF query_ok THEN "none" ELSE "user query"]
    /\ ops' = Logged(p, "user")
    /\ held' = HeldAfter(p, "auth_done")
    /\ UNCHANGED <<tokens, users, cf_user, i, new_key, request, token, last, now, issued, codec>>

\* The call has returned; the thread takes its next request.
ReturnToIdle(p) ==
    /\ pc[p] \in {"cf_done", "inv_done", "auth_done"}
    /\ pc' = [pc EXCEPT ![p] = "idle"]
    /\ cf_user' = [cf_user EXCEPT ![p] = NoUser]
    /\ i' = [i EXCEPT ![p] = 0]
    /\ new_key' = [new_key EXCEPT ![p] = NoKey]
    /\ request' = [request EXCEPT ![p] = <<>>]
    /\ token' = [token EXCEPT ![p] = NoUser]
    /\ result' = [result EXCEPT ![p] = NoResult]
    /\ fault' = [fault EXCEPT ![p] = "none"]
    /\ ops' = [ops EXCEPT ![p] = <<>>]
    /\ UNCHANGED <<tokens, users, now, issued, held, codec>>

Return(p) == ReturnToIdle(p) /\ UNCHANGED last

\* Return, recording in the history variable the create_for or
\* invalidate_for that returned.
ReturnObserved(p) ==
    /\ ReturnToIdle(p)
    /\ last' = IF pc[p] = "auth_done" THEN last
               ELSE IF result[p].tag = "Ok"
               THEN [op |-> pc[p], user |-> cf_user[p], key |-> result[p].key]
               ELSE NoCall

\* The keys drawn and the requests received in the concurrent specification.
ConcKeys == {<<"k">>, <<"K">>}
ConcRequests ==
    {<<>>, <<TokenHeader(<<"k">>)>>, <<TokenHeader(<<"K">>)>>,
     <<TokenHeader(<<"k">>), TokenHeader(<<"K">>)>>}

\* Threads of the server run concurrently, one store statement at a time.
Next ==
    \E p \in Procs :
        \/ \E u \in UserIds : create_for_begin(p, u)
        \/ create_for_loop(p, ConcKeys)
        \/ create_for_delete(p)
        \/ create_for_insert(p)
        \/ \E u \in UserIds : invalidate_for(p, u)
        \/ \E keys \in ConcRequests : from_request_token(p, keys)
        \/ from_request_user(p)
        \/ Return(p)

Spec == Init /\ [][Next]_vars

\* ------------------------------------------------- sequential specification
\* One thread serves the requests one after the other, from any store the
\* concurrent threads can have left behind: create_for calls that overlap
\* leave a user several rows and a key several owners (C2_OneTokenPerUser and
\* C3_KeysUnique fail under Spec), so the store starts as any table with at
\* most MaxDup copies of a row.
SeqProc == 1

SeqInit ==
    /\ tokens \in [Rows -> 0 .. MaxDup]
    /\ users = UserIds
    /\ pc = [p \in Procs |-> "idle"]
    /\ cf_user = [p \in Procs |-> NoUser]
    /\ i = [p \in Procs |-> 0]
    /\ new_key = [p \in Procs |-> NoKey]
    /\ request = [p \in Procs |-> <<>>]
    /\ token = [p \in Procs |-> NoUser]
    /\ result = [p \in Procs |-> NoResult]
    /\ last = NoCall
    /\ now = 0
    /\ issued = [r \in Rows |-> 0]
    /\ fault = [p \in Procs |-> "none"]
    /\ held = [p \in Procs |-> 0]
    /\ ops = [p \in Procs |-> <<>>]
    /\ CodecIdle

SeqNext ==
    \/ \E u \in UserIds : create_for_begin(SeqProc, u)
    \/ create_for_loop(SeqProc, Keys)
    \/ create_for_delete(SeqProc)
    \/ create_for_insert(SeqProc)
    \/ \E u \in UserIds : invalidate_for(SeqProc, u)
    \/ \E keys \in Requests : from_request_token(SeqProc, keys)
    \/ from_request_user(SeqProc)
    \/ ReturnObserved(SeqProc)

SeqSpec == SeqInit /\ [][SeqNext]_vars

\* A thread inside create_for's loop runs its next pass: the RNG and the
\* store's query are blocking calls that return or fail.
FairSpec == Spec /\ \A p \in Procs : WF_vars(create_for_loop(p, ConcKeys))

\* The store's clock advances; nothing in token.rs reads it.
Tick ==
    /\ now < MaxTime
    /\ now' = now + 1
    /\ UNCHANGED <<tokens, users, pc, cf_user, i, new_key, request, token, result,
                   last, issued, fault, held, ops, codec>>

\* The sequential specification with time passing between the steps.
TimedNext == SeqNext \/ Tick

TimedSpec == SeqInit /\ [][TimedNext]_vars

\* The sequential specification from a store in which token rows may name a
\* user that the users table does not hold: no code of the repository deletes
\* a user, but the tables carry no constraint that ties a token row to one.
OrphanInit ==
    /\ tokens \in [Rows -> 0 .. MaxDup]
    /\ users \in SUBSET UserIds
    /\ pc = [p \in Procs |-> "idle"]
    /\ cf_user = [p \in Procs |-> NoUser]
    /\ i = [p \in Procs |-> 0]
    /\ new_key = [p \in Procs |-> NoKey]
    /\ request = [p \in Procs |-> <<>>]
    /\ token = [p \in Procs |-> NoUser]
    /\ result = [p \in Procs |-> NoResult]
    /\ last = NoCall
    /\ now = 0
    /\ issued = [r \in Rows |-> 0]
    /\ fault = [p \in Procs |-> "none"]
    /\ held = [p \in Procs |-> 0]
    /\ ops = [p \in Procs |-> <<>>]
    /\ CodecIdle

OrphanSpec == OrphanInit /\ [][SeqNext]_vars

\* One thread replaces tokens, one call after the other, while a second
\* thread sends requests.
Creator == 1
Client == 2

RaceNext ==
    \/ \E u \in UserIds : create_for_begin(Creator, u)
    \/ create_for_loop(Creator, ConcKeys)
    \/ create_for_delete(Creator)
    \/ create_for_insert(Creator)
    \/ ReturnObserved(Creator)
    \/ \E keys \in ConcRequests : from_request_token(Client, keys)
    \/ from_request_user(Client)
    \/ Return(Client)

RaceSpec == Init /\ [][RaceNext]_vars

\* ------------------------------------------------ password codec's callers
\* SaltyPassword::new(pw): the salt is drawn from the OS RNG (new aborts when
\* the RNG cannot be opened) and the hash is argon2i_simple(pw, salt).
new(pw) ==
    /\ cpc = "idle"
    /\ password' = pw
    /\ \E rng_ok \in BOOLEAN :
          IF ~rng_ok
          THEN /\ cpc' = "panic"
               /\ UNCHANGED <<made, argon2i>>
          ELSE \E salt \in Salts : \E hash \in Argon2iSimple(pw, salt) :
                  /\ made' = Some(salt, hash)
                  /\ argon2i' = argon2i \cup {[password |-> pw, salt |-> salt, hash |-> hash]}
                  /\ cpc' = "made"
    /\ UNCHANGED <<field, parsed, shown, attempt, valid, auth>>

\* to_string() of the SaltyPassword that new returned (NewUser::new writes it
\* to users.password), or of the one that parse returned.
to_string ==
    /\ \/ /\ cpc = "made"
          /\ field' = Display(made)
          /\ cpc' = "field"
          /\ UNCHANGED shown
       \/ /\ cpc = "parsed" /\ parsed.tag = "Some"
          /\ shown' = Display(parsed)
          /\ cpc' = "shown"
          /\ UNCHANGED field
    /\ UNCHANGED <<password, made, parsed, attempt, valid, argon2i, auth>>

\* A users.password column is read that holds the string s.
read_field(s) ==
    /\ cpc = "idle"
    /\ field' = s
    /\ cpc' = "field"
    /\ UNCHANGED <<password, made, parsed, shown, attempt, valid, argon2i, auth>>

\* SaltyPassword::parse(field)
parse ==
    /\ cpc = "field"
    /\ parsed' = Parse(field)
    /\ cpc' = IF Parse(field) = Panic THEN "panic" ELSE "parsed"
    /\ UNCHANGED <<password, made, field, shown, attempt, valid, argon2i, auth>>

\* Mutant of validate: the hash is recomputed with a salt drawn anew, not
\* with self.salt.
validate_NewSalt(pw) ==
    /\ \/ cpc = "made"
       \/ cpc = "parsed" /\ parsed.tag = "Some"
    /\ attempt' = pw
    /\ LET self == IF cpc = "made" THEN made ELSE parsed IN
       \E salt \in Salts : \E hash \in Argon2iSimple(pw, salt) :
          /\ valid' = (self.hash = hash)
          /\ argon2i' = argon2i \cup {[password |-> pw, salt |-> salt, hash |-> hash]}
    /\ cpc' = IF cpc = "made" THEN "made validated" ELSE "parsed validated"
    /\ UNCHANGED <<password, made, field, parsed, shown, auth>>

\* validate(pw) of the SaltyPassword that new returned, or of the one that
\* parse returned: self.hash == argon2i_simple(pw, &self.salt).
validate(pw) ==
    /\ \/ cpc = "made"
       \/ cpc = "parsed" /\ parsed.tag = "Some"
    /\ attempt' = pw
    /\ LET self == IF cpc = "made" THEN made ELSE parsed IN
       \E hash \in Argon2iSimple(pw, self.salt) :
          /\ valid' = (self.hash = hash)
          /\ argon2i' = argon2i \cup {[password |-> pw, salt |-> self.salt, hash |-> hash]}
    /\ cpc' = IF cpc = "made" THEN "made validated" ELSE "parsed validated"
    /\ UNCHANGED <<password, made, field, parsed, shown, auth>>

CodecNext ==
    \/ \E pw \in Passwords : new(pw)
    \/ to_string
    \/ \E s \in Fields : read_field(s)
    \/ parse
    \/ \E pw \in Passwords : validate(pw)

\* One use of the codec: a password is encoded, stored, read back and
\* checked, or a stored string is read and parsed.
CodecSpec == Init /\ [][CodecNext]_vars

\* ------------------------------------------------------------------ claims
\* Thread p's create_for(u) has returned Ok.
ReturnedOk(p, u) == pc[p] = "cf_done" /\ cf_user[p] = u /\ result[p].tag = "Ok"

\* The step is thread p's successful insert, with which create_for returns.
InsertsOk(p) == pc[p] = "cf_insert" /\ pc'[p] = "cf_done" /\ result'[p].tag = "Ok"

RowOf(u, k) == [user_id |-> u, key |-> k]

\* The one outcome of a request that a well-formed header with key k gets.
Authenticates(t, k) ==
    \A o \in FromRequest(t, users, <<TokenHeader(k)>>) : o.tag = "Success"

\* C2: in every reachable state, whatever create_for and invalidate_for calls
\* have run or are running, each user owns at most one token row.
C2_OneTokenPerUser == \A u \in UserIds : TokensOf(tokens, u) <= 1

\* C3: in every reachable state no two token rows carry the same key.
C3_KeysUnique == \A k \in Keys : TokensWithKey(tokens, k) <= 1

\* C1: when create_for(u) has returned K1 and the next create_for or
\* invalidate_for call, with no call overlapping either, is create_for(u)
\* again and returns K2, then K1 # K2, a request with "Token K1" gets 403
\* "Token presented was not valid" and one with "Token K2" resolves to u.
C1_TokenReplacement ==
    \A u \in UserIds :
        (ReturnedOk(SeqProc, u) /\ last.op = "cf_done" /\ last.user = u)
        => LET K1 == last.key
               K2 == result[SeqProc].key
           IN  /\ K1 # K2
               /\ FromRequest(tokens, users, <<TokenHeader(K1)>>)
                      = {Failure(Forbidden, MsgInvalid)}
               /\ FromRequest(tokens, users, <<TokenHeader(K2)>>) = {Success(u)}

\* C1's case: the second create_for(1) has returned K after the first
\* returned k, in a store that also holds a row of user 2.
C1_Witness ==
    /\ ReturnedOk(SeqProc, 1) /\ last.op = "cf_done" /\ last.user = 1
    /\ last.key = <<"k">> /\ result[SeqProc].key = <<"K">>
    /\ tokens[RowOf(2, <<"q">>)] > 0

\* C4: when a create_for(u) inserts its row while the row of another
\* create_for(u), which has returned Ok, is in the table (the two calls both
\* deleted before either inserted), user u is left with two or more token
\* rows, and the keys the two calls returned both authenticate.
C4_TwoTokensAfterRace ==
    [][\A p, q \in Procs :
          (/\ p # q
           /\ InsertsOk(p)
           /\ ReturnedOk(q, cf_user[p])
           /\ tokens[RowOf(cf_user[p], result[q].key)] > 0)
          => /\ TokensOf(tokens', cf_user[p]) >= 2
             /\ tokens'[RowOf(cf_user[p], result[q].key)] > 0
             /\ tokens'[RowOf(cf_user[p], result'[p].key)] > 0
             /\ Authenticates(tokens', result[q].key)
             /\ Authenticates(tokens', result'[p].key)
             /\ Success(cf_user[p]) \in FromRequest(tokens', users, <<TokenHeader(result[q].key)>>)
             /\ Success(cf_user[p]) \in FromRequest(tokens', users, <<TokenHeader(result'[p].key)>>)
      ]_vars

\* C4's case: two create_for calls for user 1 have returned different keys
\* and both rows are in the table.
C4_Witness ==
    /\ ReturnedOk(1, 1) /\ ReturnedOk(2, 1)
    /\ result[1].key # result[2].key
    /\ TokensOf(tokens, 1) = 2
    /\ tokens[RowOf(1, result[1].key)] = 1 /\ tokens[RowOf(1, result[2].key)] = 1
    /\ Authenticates(tokens, result[1].key) /\ Authenticates(tokens, result[2].key)

\* C5 as claimed: when the later of two create_for(u) calls returns Ok, the
\* other having returned Ok, user u is left with no token row.
C5_ZeroTokensAfterRace ==
    [][\A p, q \in Procs :
          (p # q /\ InsertsOk(p) /\ ReturnedOk(q, cf_user[p]))
          => TokensOf(tokens', cf_user[p]) = 0
      ]_vars

\* C5 as amended: when the later of two create_for(u) calls returns Ok, the
\* other having returned Ok, user u owns at least one token row, the one the
\* later call inserted: the last statement of a successful call is its insert.
C5_NeverZeroTokensAfterRace ==
    [][\A p, q \in Procs :
          (p # q /\ InsertsOk(p) /\ ReturnedOk(q, cf_user[p]))
          => /\ TokensOf(tokens', cf_user[p]) >= 1
             /\ tokens'[RowOf(cf_user[p], result'[p].key)] > 0
      ]_vars

\* C5's case: two create_for calls for user 1 that overlapped (both accepted
\* the key k, so each checked before the other inserted) have returned, and
\* the delete of the later call removed the row of the earlier one.
C5_Witness ==
    /\ ReturnedOk(1, 1) /\ ReturnedOk(2, 1)
    /\ result[1].key = result[2].key
    /\ TokensOf(tokens, 1) = 1

MsgExhausted == "Couldn't find unused key after 10 tries"

\* Thread p ran one pass of create_for's loop in this step.
LoopPass(p) == pc[p] = "cf_loop" /\ (pc'[p] # "cf_loop" \/ i'[p] # i[p])

\* C6: a create_for call checks at most 10 candidate keys (the pass that
\* checks candidate number i + 1 runs with i in 0 .. 9); a pass either accepts
\* a candidate absent from the store, or counts a present one, or fails; the
\* exhaustion error is returned by the 10th pass and only by it; and a call
\* in the loop leaves it.
C6_BoundedKeySearch ==
    /\ [](\A p \in Procs : pc[p] = "cf_loop" => i[p] \in 0 .. 9)
    /\ [][\A p \in Procs :
             LoopPass(p)
             => \/ /\ pc'[p] = "cf_delete"
                   /\ new_key'[p] \in Keys
                   /\ ~KeyExists(tokens, new_key'[p])
                \/ /\ pc'[p] = "cf_loop"
                   /\ i'[p] = i[p] + 1
                   /\ i[p] < 9
                   /\ \E k \in Keys : KeyExists(tokens, k)
                \/ /\ pc'[p] = "cf_done"
                   /\ result'[p] = Err(MsgExhausted)
                   /\ i[p] = 9
                   /\ \E k \in Keys : KeyExists(tokens, k)
                \/ /\ pc'[p] = "cf_done"
                   /\ result'[p] \in {Err("Couldn't connect to OS RNG"),
                                      Err("Failed to check for key existence")}
         ]_vars
    /\ \A p \in Procs : (pc[p] = "cf_loop") ~> (pc[p] # "cf_loop")

\* C6's case: a create_for call has returned the exhaustion error.
C6_Witness ==
    \E p \in Procs : pc[p] = "cf_done" /\ result[p] = Err(MsgExhausted)

\* The step is thread p's invalidate_for(u) returning Ok.
InvalidatesOk(p, u) ==
    pc[p] = "idle" /\ pc'[p] = "inv_done" /\ cf_user'[p] = u /\ result'[p].tag = "Ok"

\* C7: an invalidate_for(u) that returns Ok has deleted every row of u and no
\* other row, a second invalidate_for(u) would leave the table as it is, and
\* no key that a row of u carried authenticates any more.
C7_InvalidateFor ==
    [][\A p \in Procs, u \in UserIds :
          InvalidatesOk(p, u)
          => /\ TokensOf(tokens', u) = 0
             /\ \A r \in Rows : r.user_id # u => tokens'[r] = tokens[r]
             /\ DeleteTokensFor(tokens', u) = tokens'
             /\ \A k \in Keys :
                   tokens[RowOf(u, k)] > 0
                   => \A o \in FromRequest(tokens', users, <<TokenHeader(k)>>) :
                         o.tag # "Success"
      ]_vars

\* The step is one of thread p's create_for(u) or invalidate_for(u).
StepOfCallFor(p, u) ==
    /\ pc'[p] # pc[p] \/ i'[p] # i[p]
    /\ pc'[p] \in {"cf_loop", "cf_delete", "cf_insert", "cf_done", "inv_done"}
    /\ cf_user'[p] = u

\* C8: a step of create_for(u) or invalidate_for(u) leaves every row of
\* another user v as it is, and a request with a key of v gets the same
\* outcomes after the step as before it.
C8_OtherUsersUntouched ==
    [][\A p \in Procs, u \in UserIds, v \in UserIds :
          (StepOfCallFor(p, u) /\ v # u)
          => \A k \in Keys :
                /\ tokens'[RowOf(v, k)] = tokens[RowOf(v, k)]
                /\ tokens[RowOf(v, k)] > 0
                   => FromRequest(tokens', users, <<TokenHeader(k)>>)
                         = FromRequest(tokens, users, <<TokenHeader(k)>>)
      ]_vars

\* C9: a request whose one Authorization value is "Token " followed by
\* exactly the key of a token row, the row's user being in the users table,
\* succeeds (the store answering) and resolves to that row's user; a request
\* whose remainder after the prefix differs from every stored key in any
\* character, blank or case does not succeed.
C9_VerbatimLookup ==
    /\ \A r \in Rows :
          (tokens[r] > 0 /\ r.user_id \in users)
          => FromRequest(tokens, users, <<TokenHeader(r.key)>>) = {Success(r.user_id)}
    /\ \A keys \in Requests :
          (HeaderCheck(keys) = NoResult /\ ~KeyExists(tokens, IncomingKey(keys)))
          => FromRequest(tokens, users, keys) = {Failure(Forbidden, MsgInvalid)}

\* C10: a from_request call whose request has no Authorization header, or more
\* than one, returns 401 with the "exactly once" message, whatever the
\* headers' values and whatever the store holds or answers.
C10_HeaderCount ==
    \A p \in Procs :
        (pc[p] = "auth_done" /\ Len(request[p]) # 1)
        => result[p] = Failure(Unauthorized, MsgOnce)

\* C10's case: a request with two Authorization headers, the second the key
\* of a token row, has been refused.
C10_Witness ==
    /\ pc[SeqProc] = "auth_done"
    /\ request[SeqProc] = <<<<"k">>, TokenHeader(<<"K">>)>>
    /\ tokens[RowOf(1, <<"K">>)] > 0
    /\ result[SeqProc].status = Unauthorized

\* C11: a from_request call whose request has one Authorization value that
\* does not begin with "Token " (capital T, lowercase oken, one blank),
\* whatever follows and whatever the store holds or answers, returns 401 with
\* the message that names the prefix.
C11_PrefixRequired ==
    \A p \in Procs :
        (/\ pc[p] = "auth_done"
         /\ Len(request[p]) = 1
         /\ ~StartsWith(request[p][1], TOKEN_PREFIX))
        => result[p] = Failure(Unauthorized, MsgPrefix)

\* C11's case: the value "token k", the prefix in lowercase followed by the
\* key of a token row, has been refused with 401.
C11_Witness ==
    /\ pc[SeqProc] = "auth_done"
    /\ request[SeqProc] = <<<<"t", "o", "k", "e", "n", " ", "k">>>>
    /\ tokens[RowOf(1, <<"k">>)] > 0
    /\ result[SeqProc] = Failure(Unauthorized, MsgPrefix)

\* Thread p's from_request has returned, its request carrying one
\* Authorization value that begins with "Token ".
ReturnedWellFormed(p) == pc[p] = "auth_done" /\ HeaderCheck(request[p]) = NoResult

\* C12: a from_request call with a well-formed header, the pool and the
\* token query answering, returns 403 "Token presented was not valid" when no
\* token row carries the presented key: not 500, not 401, not Success.
C12_UnknownKeyForbidden ==
    \A p \in Procs :
        (/\ ReturnedWellFormed(p)
         /\ fault[p] = "none"
         /\ ~KeyExists(tokens, IncomingKey(request[p])))
        => result[p] = Failure(Forbidden, MsgInvalid)

\* C12's case: "Token q" has been refused with 403 by a store that answered
\* and holds a row with another key, k, and none with q.
C12_Witness ==
    /\ ReturnedWellFormed(SeqProc)
    /\ request[SeqProc] = <<TokenHeader(<<"q">>)>>
    /\ fault[SeqProc] = "none"
    /\ tokens[RowOf(1, <<"k">>)] > 0
    /\ ~KeyExists(tokens, <<"q">>)
    /\ result[SeqProc] = Failure(Forbidden, MsgInvalid)

\* C13: a from_request call with a well-formed header in which
\* CONNECTION_POOL.get(), the token query or the user query failed (the
\* token query otherwise than by finding no row) returns a Failure with
\* status 500: not 401, not 403, not Success.
C13_StoreFailureIs500 ==
    \A p \in Procs :
        (ReturnedWellFormed(p) /\ fault[p] \in {"pool", "token query", "user query"})
        => /\ result[p].tag = "Failure"
           /\ result[p].status = InternalServerError

\* C13's case: "Token k", k the key of a row of user 1, has got 500 because
\* the user query failed; users holds user 1.
C13_Witness ==
    /\ ReturnedWellFormed(SeqProc)
    /\ request[SeqProc] = <<TokenHeader(<<"k">>)>>
    /\ tokens[RowOf(1, <<"k">>)] > 0
    /\ token[SeqProc] = 1 /\ 1 \in users
    /\ fault[SeqProc] = "user query"
    /\ result[SeqProc].status = InternalServerError

\* C14: a from_request call that found a token row whose user_id is the id of
\* no row of users returns a Failure with status 500: not 403, not Success.
C14_OrphanedTokenIs500 ==
    \A p \in Procs :
        (pc[p] = "auth_done" /\ token[p] # NoUser /\ token[p] \notin users)
        => /\ result[p].tag = "Failure"
           /\ result[p].status = InternalServerError

\* C14's case: "Token k" found the row of user 2, users holds user 1 only,
\* every store operation answered, and the call returned 500.
C14_Witness ==
    /\ ReturnedWellFormed(SeqProc)
    /\ request[SeqProc] = <<TokenHeader(<<"k">>)>>
    /\ tokens[RowOf(2, <<"k">>)] > 0
    /\ token[SeqProc] = 2 /\ users = {1}
    /\ fault[SeqProc] = "none"
    /\ result[SeqProc].status = InternalServerError

\* The step is thread p's delete of the rows of user u: the delete statement
\* of create_for(u) or that of invalidate_for(u).
DeletesFor(p, u) ==
    /\ cf_user'[p] = u
    /\ \/ pc[p] = "cf_delete" /\ pc'[p] = "cf_insert"
       \/ pc[p] = "idle" /\ pc'[p] = "inv_done" /\ result'[p].tag = "Ok"

\* C15: a token row is in the table or it is not, and nothing else about it
\* counts.  The clock's ticks leave the table as it is; a row leaves the
\* table only by the delete statement of a create_for or invalidate_for for
\* its user; and a from_request call with the key of a row in the table, the
\* store answering and the users present, succeeds as an owner of that key,
\* whatever the clock and the row's timestamp are.
C15_TokenStaysActive ==
    /\ [][now' # now => tokens' = tokens]_vars
    /\ [][\A r \in Rows :
             tokens'[r] < tokens[r] => \E p \in Procs : DeletesFor(p, r.user_id)]_vars
    /\ [](\A p \in Procs :
             (/\ ReturnedWellFormed(p)
              /\ fault[p] = "none"
              /\ KeyExists(tokens, IncomingKey(request[p])))
             => /\ result[p].tag = "Success"
                /\ tokens[RowOf(result[p].user, IncomingKey(request[p]))] > 0)

\* C15's case: create_for(1) returned k at time 0, the clock has reached
\* MaxTime, and a request with "Token k" has just succeeded as user 1.
C15_Witness ==
    /\ last = [op |-> "cf_done", user |-> 1, key |-> <<"k">>]
    /\ issued[RowOf(1, <<"k">>)] = 0
    /\ now = MaxTime
    /\ pc[SeqProc] = "auth_done"
    /\ request[SeqProc] = <<TokenHeader(<<"k">>)>>
    /\ result[SeqProc] = Success(1)

\* The string in field was written by to_string() of the SaltyPassword that
\* new(password) returned, and parse has run on it.
RoundTripped == made.tag = "Some" /\ cpc \in {"parsed", "parsed validated", "shown", "panic"}

\* C16: parse(new(p).to_string()) returns Some SaltyPassword with the salt
\* and the hash that new(p) made, whatever bytes the hash holds, and its
\* validate(p) returns true.
C16_RoundTrip ==
    /\ RoundTripped => parsed = made
    /\ (RoundTripped /\ cpc = "parsed validated" /\ attempt = password) => valid

\* The string s has the frame "$argon2$...$...$": the prefix, a separating
\* dollar after it and a trailing dollar of its own.
HasFrame(s) ==
    /\ StartsWith(s, PREFIX)
    /\ Len(s) > Len(PREFIX)
    /\ s[Len(s)] = "$"
    /\ \E j \in Len(PREFIX) + 1 .. Len(s) - 1 : s[j] = "$"

\* The hash segment of a string with the frame: what stands between the
\* first dollar after the prefix and the trailing dollar.
HashSegmentOf(s) ==
    LET sep == CHOOSE j \in Len(PREFIX) + 1 .. Len(s) - 1 :
                  s[j] = "$" /\ \A m \in Len(PREFIX) + 1 .. j - 1 : s[m] # "$"
    IN  SubSeq(s, sep + 1, Len(s) - 1)

\* C17: parse returns Some or None for every string and never panics; it
\* returns None for a string without the prefix, without the trailing
\* dollar, too short to hold both, without a dollar between salt and hash,
\* or with a hash segment whose length is not 2 * HASH_LENGTH.
C17_ParseNeverPanics ==
    /\ parsed # Panic
    /\ (cpc = "parsed" /\ (~HasFrame(field) \/ Len(HashSegmentOf(field)) # 2 * HASH_LENGTH))
       => parsed = NoSalty

\* C18: parse returns None for every string whose hash segment holds a
\* character that is no hexadecimal digit (a sign, a dollar, a byte of a
\* non-ASCII character), also when the segment has 2 * HASH_LENGTH characters.
C18_NonHexRejected ==
    (/\ cpc \in {"parsed", "parsed validated", "shown"}
     /\ HasFrame(field)
     /\ \E j \in 1 .. Len(HashSegmentOf(field)) : ToDigit(HashSegmentOf(field)[j]) < 0)
    => parsed = NoSalty

\* The string str is "$argon2$" + self.salt + "$" + hex + "$", hex being
\* 2 * HASH_LENGTH lowercase hexadecimal digits that spell self.hash.
Canonical(str, self) ==
    LET hex == SubSeq(str, Len(PREFIX) + Len(self.salt) + 2, Len(str) - 1) IN
    /\ Len(str) = Len(PREFIX) + Len(self.salt) + 2 * HASH_LENGTH + 2
    /\ StartsWith(str, PREFIX \o self.salt \o <<"$">>)
    /\ EndsWith(str, <<"$">>)
    /\ \A j \in 1 .. Len(hex) : \E d \in 1 .. 16 : hex[j] = LowerDigits[d]
    /\ \A j \in 1 .. HASH_LENGTH :
          16 * ToDigit(hex[2 * j - 1]) + ToDigit(hex[2 * j]) = self.hash[j]

\* C19: to_string() writes "$argon2$" + salt + "$" + hash + "$" with the hash
\* as exactly 2 * HASH_LENGTH lowercase hexadecimal digits, for every hash.
C19_SerializedForm ==
    /\ (cpc = "field" /\ made.tag = "Some") => Canonical(field, made)
    /\ cpc = "shown" => Canonical(shown, parsed)

\* C20: for every string s that parse accepts, parse(s).to_string() is s,
\* character for character.
C20_SerializeInvertsParse == cpc = "shown" => shown = field

\* argon2i_simple(pw, salt) has been computed and gave hash.
Hashed(pw, salt, hash) ==
    [password |-> pw, salt |-> salt, hash |-> hash] \in argon2i

\* C21: validate(pw) of the SaltyPassword that new(p) returned answers true
\* exactly when argon2i_simple(pw, salt), computed with the stored salt, is
\* the stored hash; validate(p) therefore answers true.
C21_NewValidates ==
    cpc = "made validated"
    => /\ valid <=> Hashed(attempt, made.salt, made.hash)
       /\ attempt = password => valid

\* C21's case: new(p) made a hash with bytes below 0x10 and validate(p) has
\* answered true.
C21_Witness ==
    /\ cpc = "made validated"
    /\ attempt = password
    /\ made.hash = [j \in 1 .. HASH_LENGTH |-> 10]
    /\ valid

\* The 62 characters A-Z, a-z, 0-9.
Alphanumeric ==
    {"A", "B", "C", "D", "E", "F", "G", "H", "I", "J", "K", "L", "M",
     "N", "O", "P", "Q", "R", "S", "T", "U", "V", "W", "X", "Y", "Z",
     "a", "b", "c", "d", "e", "f", "g", "h", "i", "j", "k", "l", "m",
     "n", "o", "p", "q", "r", "s", "t", "u", "v", "w", "x", "y", "z",
     "0", "1", "2", "3", "4", "5", "6", "7", "8", "9"}

\* The salt has SALT_LENGTH characters, each a letter or a digit.
SaltWellFormed(salt) ==
    /\ Len(salt) = SALT_LENGTH
    /\ \A j \in 1 .. Len(salt) : salt[j] \in Alphanumeric

\* C22: every SaltyPassword, the one new returned and the one parse
\* returned, has a salt of 4 * HASH_LENGTH characters out of A-Z, a-z, 0-9.
C22_SaltWellFormed ==
    /\ made.tag = "Some" => SaltWellFormed(made.salt)
    /\ parsed.tag = "Some" => SaltWellFormed(parsed.salt)

\* C23: the store statements of one create_for(u) run in the order check,
\* delete, insert.  The passes of the loop only read the table; the call
\* comes to its delete from the pass that accepted a key absent from the
\* table; it comes to its insert from its own delete, which removed every
\* row of u; and it returns Ok only from its insert, which added the one row
\* (u, accepted key) and returned that key.
C23_CheckDeleteInsert ==
    [][\A p \in Procs :
          /\ pc[p] = "cf_loop" /\ pc'[p] # pc[p]
             => /\ tokens' = tokens
                /\ pc'[p] \in {"cf_delete", "cf_done"}
                /\ pc'[p] = "cf_delete" => ~KeyExists(tokens, new_key'[p])
                /\ pc'[p] = "cf_done" => result'[p].tag = "Err"
          /\ pc'[p] = "cf_delete" /\ pc'[p] # pc[p] => pc[p] = "cf_loop"
          /\ pc'[p] = "cf_insert" /\ pc'[p] # pc[p]
             => /\ pc[p] = "cf_delete"
                /\ tokens' = DeleteTokensFor(tokens, cf_user[p])
                /\ new_key'[p] = new_key[p]
          /\ pc[p] = "cf_insert" /\ pc'[p] # pc[p]
             => /\ pc'[p] = "cf_done"
                /\ \/ /\ result'[p] = Ok(new_key[p])
                      /\ tokens' = InsertToken(tokens, cf_user[p], new_key[p])
                   \/ /\ result'[p].tag = "Err"
                      /\ tokens' = tokens
          /\ (pc'[p] = "cf_done" /\ pc'[p] # pc[p] /\ result'[p].tag = "Ok")
             => pc[p] = "cf_insert"
      ]_vars

\* C23's case: create_for(1) has returned K: its first candidate k was in
\* the table as a key of user 2, and the table now holds the row (1, K) as
\* the only row of user 1.
C23_Witness ==
    /\ ReturnedOk(1, 1)
    /\ result[1].key = <<"K">>
    /\ tokens[RowOf(2, <<"k">>)] = 1
    /\ tokens[RowOf(1, <<"K">>)] = 1
    /\ TokensOf(tokens, 1) = 1
    /\ pc[2] = "idle"

CountOf(log, op) == Cardinality({k \in 1 .. Len(log) : log[k] = op})

InProgress(p) == pc[p] \in {"cf_loop", "cf_delete", "cf_insert", "auth_user"}

\* C24: every call of from_request, create_for and invalidate_for checks out
\* at most one pooled connection and holds none once it has returned, whether
\* it succeeded or failed; the connections checked out never outnumber the
\* calls in progress.
C24_ConnectionsScoped ==
    /\ \A p \in Procs :
          /\ CountOf(ops[p], "get") <= 1
          /\ held[p] <= 1
          /\ ~InProgress(p) => held[p] = 0
    /\ SumOver(held, Procs) <= Cardinality({p \in Procs : InProgress(p)})

C24_Witness ==
    /\ pc[1] = "cf_done" /\ result[1] = Err("Couldn't delete existing keys")
    /\ ops[1] = <<"get", "exists", "delete">> /\ held[1] = 0
    /\ pc[2] = "auth_user" /\ held[2] = 1

\* The step belongs to a from_request call of thread p.
FromRequestStep(p) == pc'[p] # pc[p] /\ pc'[p] \in {"auth_user", "auth_done"}

\* C25: from_request never writes: every step of it, whatever the request and
\* whether it ends in Success, 401, 403 or 500, leaves the token rows and the
\* user rows as they were.
C25_FromRequestReadOnly ==
    [][\A p \in Procs : FromRequestStep(p) => tokens' = tokens /\ users' = users]_vars

C25_Witness ==
    /\ pc[1] = "auth_done" /\ result[1] = Success(2)
    /\ request[1] = <<TokenHeader(<<"q">>)>>
    /\ ops[1] = <<"get", "token", "user">>
    /\ tokens[RowOf(2, <<"q">>)] = 1 /\ TokensOf(tokens, 1) = 1

\* The Authorization header does not appear exactly once, or its value does
\* not begin with "Token ".
Malformed(keys) == Len(keys) # 1 \/ ~StartsWith(keys[1], TOKEN_PREFIX)

\* C26: from_request looks at the header before it touches the store: a
\* request with a malformed header is answered 401 and the call has neither
\* asked the pool for a connection nor issued a query, so no store failure
\* can turn the answer into a 500.
C26_HeaderBeforeStore ==
    \A p \in Procs :
        pc[p] \in {"auth_user", "auth_done"} /\ Malformed(request[p])
        => /\ pc[p] = "auth_done"
           /\ result[p].tag = "Failure" /\ result[p].status = Unauthorized
           /\ ops[p] = <<>> /\ held[p] = 0 /\ fault[p] = "none"

C26_Witness ==
    /\ pc[1] = "auth_done" /\ request[1] = <<<<"T", "o", "k", "e", "n", "k">>>>
    /\ result[1] = Failure(Unauthorized, MsgPrefix) /\ ops[1] = <<>>
    /\ tokens[RowOf(1, <<"k">>)] = 1

\* The errors create_for returns before its insert statement.
EarlyErrors ==
    {Err("Couldn't get connection from pool"), Err("Couldn't connect to OS RNG"),
     Err("Failed to check for key existence"), Err(MsgExhausted),
     Err("Couldn't delete existing keys")}

\* The step is one of thread p's create_for call up to and including a
\* delete statement that failed.
StepUpToDelete(p) ==
    \/ pc[p] = "idle" /\ pc'[p] \in {"cf_loop", "cf_done"}
    \/ LoopPass(p)
    \/ pc[p] = "cf_delete" /\ pc'[p] = "cf_done"

\* C27: a create_for(u) that fails because the pool gives no connection, the
\* RNG is unavailable, an existence check fails, 10 candidates are used up, or
\* the delete fails, has changed nothing: each of its steps leaves the token
\* rows as they were, none of them is an insert or a delete that took effect,
\* and every key that authenticated before the step, u's among them, still
\* does.
C27_EarlyFailureKeepsStore ==
    [][\A p \in Procs :
         /\ StepUpToDelete(p)
            => /\ tokens' = tokens
               /\ \A k \in Keys : tokens[RowOf(cf_user'[p], k)] > 0 /\ Authenticates(tokens, k)
                                    => (Authenticates(tokens, k))'
         /\ pc[p] # "cf_done" /\ pc'[p] = "cf_done" /\ result'[p] \in EarlyErrors
            => /\ StepUpToDelete(p)
               /\ CountOf(ops'[p], "insert") = 0
               /\ CountOf(ops'[p], "delete") > 0
                  => result'[p] = Err("Couldn't delete existing keys")
         /\ pc[p] = "cf_delete" /\ pc'[p] = "cf_done"
            => result'[p] = Err("Couldn't delete existing keys")]_vars

C27_Witness ==
    /\ pc[1] = "cf_done" /\ cf_user[1] = 1 /\ result[1] = Err(MsgExhausted)
    /\ ops[1] = <<"get", "exists">>
    /\ tokens[RowOf(1, <<"k">>)] = 1 /\ TokensOf(tokens, 1) = 1
    /\ Authenticates(tokens, <<"k">>)

\* Thread p's create_for has returned the error of its insert statement.
InsertFailed(p) ==
    pc[p] = "cf_done" /\ result[p] = Err("Failed to insert key into auth_tokens")

\* No request with a key the store can hold is answered Success(u).
NoValidToken(t, u) ==
    \A k \in Keys : Success(u) \notin FromRequest(t, users, <<TokenHeader(k)>>)

\* C28: create_for(u) is not atomic: when its delete has succeeded and its
\* insert fails, the call returns the error with u's rows gone; the key the
\* previous create_for(u) returned is no longer in the store and no key
\* authenticates as u.
C28_InsertFailureLeavesNoToken ==
    InsertFailed(SeqProc)
    => /\ ops[SeqProc] = <<"get", "exists", "delete", "insert">>
       /\ TokensOf(tokens, cf_user[SeqProc]) = 0
       /\ NoValidToken(tokens, cf_user[SeqProc])
       /\ last # NoCall /\ last.op = "cf_done" /\ last.user = cf_user[SeqProc]
          => tokens[RowOf(last.user, last.key)] = 0

C28_Witness ==
    /\ InsertFailed(SeqProc) /\ cf_user[SeqProc] = 1
    /\ last = [op |-> "cf_done", user |-> 1, key |-> <<"k">>]
    /\ tokens[RowOf(1, <<"k">>)] = 0 /\ NoValidToken(tokens, 1)
    /\ TokensOf(tokens, 2) = 1

\* Thread p's create_for(u) has deleted and not yet inserted, and the last
\* call that returned before it was the create_for(u) that returned `old`.
Replacing(p, old) ==
    /\ pc[p] = "cf_insert"
    /\ last = [op |-> "cf_done", user |-> cf_user[p], key |-> old]

\* The step is thread q's token query for key k, and the store answered it.
TokenQueried(q, k) ==
    /\ pc[q] = "idle" /\ pc'[q] \in {"auth_user", "auth_done"}
    /\ request'[q] = <<TokenHeader(k)>> /\ fault'[q] = "none"

\* C29: create_for(u) passes through a state between its delete and its
\* insert; a request that another thread sends in that state is answered 403
\* when it presents the key u held before the call, and also when it
\* presents the key the call is about to insert and return.
C29_RejectedBetweenDeleteAndInsert ==
    [][\A old \in ConcKeys : \A k \in {old, new_key[Creator]} :
         Replacing(Creator, old) /\ TokenQueried(Client, k)
         => /\ pc'[Client] = "auth_done"
            /\ result'[Client] = Failure(Forbidden, MsgInvalid)]_vars

C29_Witness ==
    /\ Replacing(Creator, <<"k">>) /\ cf_user[Creator] = 1 /\ new_key[Creator] = <<"K">>
    /\ FromRequest(tokens, users, <<TokenHeader(<<"k">>)>>) = {Failure(Forbidden, MsgInvalid)}
    /\ FromRequest(tokens, users, <<TokenHeader(<<"K">>)>>) = {Failure(Forbidden, MsgInvalid)}
    /\ pc[Client] = "auth_done" /\ request[Client] = <<TokenHeader(<<"K">>)>>
    /\ result[Client] = Failure(Forbidden, MsgInvalid)

====
